---- MODULE Spec2Model ----
(***************************************************************************)
(* Model of scripts/generate-test.go: the fixture generator of the         *)
(* readability engine.  One invocation of the tool is main(): argument     *)
(* handling, then either the batch loop over test-pages or one run of      *)
(* generateTestcase.  The file system under test-pages, the network and    *)
(* the process exit are the state; invocations follow each other over the  *)
(* same file system.                                                       *)
(***************************************************************************)
EXTENDS Integers, Sequences, FiniteSets, TLC

VARIABLES
    fs,         \* test-pages: entry name -> [kind, src, html, meta]
    pc,         \* position of the process
    argv,       \* os.Args of the running (or last) invocation
    batch,      \* TRUE while main is in the "all" branch
    dirItems,   \* result of ioutil.ReadDir("test-pages")
    idx,        \* position of the range loop over dirItems
    cur,        \* arguments of the running generateTestcase call
    doc,        \* generateTestcase: doc
    article,    \* generateTestcase: article
    err,        \* generateTestcase: the error it returns ("" is nil)
    exit,       \* how the process ended: [code, msg, name]
    runs,       \* invocations started so far
    fs0,        \* history: fs at the start of the invocation
    call0,      \* history: fs, netGets, netReqs when generateTestcase began
    netGets,    \* history: calls of httpClient.Get made by the invocation
    netReqs,    \* history: HTTP requests the invocation put on the wire
    fetched,    \* history: the body of the last response read to its end
    status,     \* history: the status code of that response, 0 before any
    handles,    \* the handles the process holds open
    outs,       \* history: outputs of the invocation's successful cases
    fsUsed,     \* history: the invocation made a file-system call
    stages,     \* history: stages of the running generateTestcase call
    started,    \* history: cases the invocation called generateTestcase for
    partial,    \* history: entries whose source.html is a cut-off download
    fault,      \* history: an I/O call failed in the generateTestcase call
    prev        \* history: the previous generateTestcase call

vars == <<fs, pc, argv, batch, dirItems, idx, cur, doc, article, err, exit,
          runs, fs0, call0, netGets, netReqs, fetched, status, handles, outs,
          fsUsed, stages, started, partial, fault, prev>>

-----------------------------------------------------------------------------
(* Bounds *)

MaxRuns == 2

-----------------------------------------------------------------------------
(* Strings are sequences of one-character strings. *)

Letters == {"a","b","c","d","e","f","g","h","i","j","k","l","m",
            "n","o","p","q","r","s","t","u","v","w","x","y","z"}

SchemePunct == {"0","1","2","3","4","5","6","7","8","9","+","-","."}

HasPrefix(s, p) == Len(s) >= Len(p) /\ SubSeq(s, 1, Len(p)) = p

\* first index >= i of character c in s, 0 when there is none
RECURSIVE Index(_, _, _)
Index(s, c, i) ==
    IF i > Len(s) THEN 0
    ELSE IF s[i] = c THEN i
    ELSE Index(s, c, i + 1)

\* net/url getScheme: (scheme, rest, err)
RECURSIVE getScheme(_, _)
getScheme(rawURL, i) ==
    IF i > Len(rawURL)
    THEN [err |-> "", scheme |-> <<>>, rest |-> rawURL]
    ELSE LET c == rawURL[i] IN
         IF c \in Letters THEN getScheme(rawURL, i + 1)
         ELSE IF c \in SchemePunct
              THEN IF i = 1
                   THEN [err |-> "", scheme |-> <<>>, rest |-> rawURL]
                   ELSE getScheme(rawURL, i + 1)
         ELSE IF c = ":"
              THEN IF i = 1
                   THEN [err |-> "missing protocol scheme",
                         scheme |-> <<>>, rest |-> <<>>]
                   ELSE [err |-> "", scheme |-> SubSeq(rawURL, 1, i - 1),
                         rest |-> SubSeq(rawURL, i + 1, Len(rawURL))]
         ELSE [err |-> "", scheme |-> <<>>, rest |-> rawURL]

\* net/url ParseRequestURI (parse with viaRequest = true) on strings without
\* control bytes, "?", "%", "@" and "[": (err, Scheme, Host, Path, Opaque)
ParseRequestURI(rawURL) ==
    LET bad(e) == [err |-> e, Scheme |-> <<>>, Host |-> <<>>,
                   Path |-> <<>>, Opaque |-> <<>>]
        s == getScheme(rawURL, 1)
    IN  IF rawURL = <<>> THEN bad("empty url")
        ELSE IF rawURL = <<"*">>
             THEN [err |-> "", Scheme |-> <<>>, Host |-> <<>>,
                   Path |-> <<"*">>, Opaque |-> <<>>]
        ELSE IF s.err # "" THEN bad(s.err)
        ELSE IF ~HasPrefix(s.rest, <<"/">>)
             THEN IF s.scheme # <<>>
                  THEN [err |-> "", Scheme |-> s.scheme, Host |-> <<>>,
                        Path |-> <<>>, Opaque |-> s.rest]
                  ELSE bad("invalid URI for request")
        ELSE IF s.scheme # <<>> /\ HasPrefix(s.rest, <<"/", "/">>)
             THEN LET auth == SubSeq(s.rest, 3, Len(s.rest))
                      i    == Index(auth, "/", 1)
                  IN  [err |-> "", Scheme |-> s.scheme,
                       Host |-> IF i = 0 THEN auth ELSE SubSeq(auth, 1, i - 1),
                       Path |-> IF i = 0 THEN <<>>
                                ELSE SubSeq(auth, i, Len(auth)),
                       Opaque |-> <<>>]
        ELSE [err |-> "", Scheme |-> s.scheme, Host |-> <<>>,
              Path |-> s.rest, Opaque |-> <<>>]

\* the command-line URLs of the model
URL_http    == <<"h","t","t","p",":","/","/","h","/","p">>
URL_notaurl == <<"n","o","t","-","a","-","u","r","l">>
URL_path    == <<"/","p">>
URL_opaque  == <<"m",":","x">>
URL_colon   == <<":","x">>

URLs == {<<>>, URL_http, URL_notaurl, URL_path, URL_opaque, URL_colon}

-----------------------------------------------------------------------------
(* The file system under test-pages *)

\* the entries of test-pages in the order ioutil.ReadDir lists them (by name)
Entries == <<"a", "all", "b">>

EntryNames == {Entries[i] : i \in 1..Len(Entries)}

\* a path: nothing, a directory, or a file with its bytes; synced is FALSE on
\* a file written through a handle that was closed without Sync
NoFile   == [type |-> "absent", data |-> <<>>, synced |-> TRUE]
DirFile  == [type |-> "dir", data |-> <<>>, synced |-> TRUE]
File(d)  == [type |-> "file", data |-> d, synced |-> TRUE]
Written(d) == [type |-> "file", data |-> d, synced |-> FALSE]

\* what a write of s that fails has put into the file
Cut(s) == IF s = <<>> THEN {<<>>}
          ELSE {SubSeq(s, 1, k) : k \in 0..(Len(s) - 1)}

\* documents: tokens "t" (a title), "p" (a paragraph), "j" (boilerplate)
\* the response bodies the network serves
Bodies == {<<"p", "p">>, <<"j">>}

\* the status codes the network answers with
Statuses == {200, 404}

\* the source.html files found on disk before the tool ever ran
Sources == {<<"t", "p">>, <<"j">>}

NoEntry == [kind |-> "none", src |-> NoFile, html |-> NoFile, meta |-> NoFile]

Entry(kind, src) ==
    [kind |-> kind, src |-> src, html |-> NoFile, meta |-> NoFile]

\* what an entry of test-pages can be before the tool ever ran: nothing, a
\* regular file, a directory that may not be searched, or a directory with or
\* without source.html (a file, or itself a directory)
InitEntries(name) ==
    CASE name = "a" ->
           {NoEntry, Entry("file", NoFile), Entry("lockdir", NoFile)}
           \cup {Entry("dir", s) :
                   s \in {NoFile, DirFile} \cup {File(b) : b \in Sources}}
      [] name = "all" ->
           {NoEntry, Entry("file", NoFile), Entry("dir", File(<<"t", "p">>))}
      [] OTHER ->
           {NoEntry, Entry("lockdir", NoFile), Entry("dir", NoFile)}
           \cup {Entry("dir", File(b)) : b \in Sources}

\* os.Stat of test-pages/<name>/source.html: "ENOENT", another error, or the
\* type of the file
Stat(name) ==
    IF name \notin EntryNames THEN "ENOENT"
    ELSE LET e == fs[name] IN
         CASE e.kind = "none"    -> "ENOENT"
           [] e.kind = "file"    -> "ENOTDIR"
           [] e.kind = "lockdir" -> "EACCES"
           [] e.kind = "dir"     -> IF e.src.type = "absent" THEN "ENOENT"
                                    ELSE e.src.type

\* fileExists: !os.IsNotExist(err) && !info.IsDir(); info is nil when Stat
\* failed, and a failure other than ENOENT reaches info.IsDir() and panics
fileExists(name) ==
    LET st == Stat(name) IN
    CASE st = "ENOENT" -> "false"
      [] st \in {"ENOTDIR", "EACCES"} -> "panic"
      [] st = "dir"  -> "false"
      [] st = "file" -> "true"

-----------------------------------------------------------------------------
(* The engine behind the harness: parser, extractor, renderer, readerable *)

Count(s, c) == Cardinality({i \in 1..Len(s) : s[i] = c})

\* dom.Parse: the document tree of the bytes
Parse(bytes) == [root |-> "html", children |-> bytes]

\* readability.FromDocument: the article of the document, or an error
FromDocument(d) ==
    LET paras == SelectSeq(d.children, LAMBDA n : n = "p") IN
    IF paras = <<>>
    THEN [err |-> "no article", Node |-> <<>>, Title |-> "", Byline |-> "",
          Excerpt |-> "", Language |-> "", SiteName |-> ""]
    ELSE [err |-> "", Node |-> <<"div">> \o paras,
          Title |-> IF Count(d.children, "t") > 0 THEN "t" ELSE "",
          Byline |-> "", Excerpt |-> "p", Language |-> "", SiteName |-> ""]

\* the document generateTestcase holds after readability.FromDocument(doc, ..)
\* returned: extraction does not change the document it is given
DocAfterExtract(d) == d

\* html.Render: the bytes of the subtree
Render(node) == node

\* readability.CheckDocument
CheckDocument(d) == Len(d.children) >= 2

NoDoc     == [root |-> "", children |-> <<>>]
NoArticle == [err |-> "", Node |-> <<>>, Title |-> "", Byline |-> "",
              Excerpt |-> "", Language |-> "", SiteName |-> ""]

-----------------------------------------------------------------------------
(* renderMetadataToFile: the anonymous struct and json.MarshalIndent *)

\* the fields of the struct in declaration order: (key, value, omitempty)
MetadataFields(art, readerable) ==
    << <<"title", art.Title, TRUE>>,
       <<"byline", art.Byline, TRUE>>,
       <<"excerpt", art.Excerpt, TRUE>>,
       <<"language", art.Language, TRUE>>,
       <<"siteName", art.SiteName, TRUE>>,
       <<"readerable", readerable, FALSE>> >>

\* MarshalIndent with the omitempty tags lost: every field is written
MarshalIndent_keepEmpty(fields) ==
    [i \in 1..Len(fields) |-> <<fields[i][1], fields[i][2]>>]

\* json.MarshalIndent: one (key, value) member per field, in order, a field
\* marked omitempty left out when its value is the empty string
MarshalIndent(fields) ==
    LET kept == SelectSeq(fields, LAMBDA f : ~(f[3] /\ f[2] = ""))
    IN  [i \in 1..Len(kept) |-> <<kept[i][1], kept[i][2]>>]

-----------------------------------------------------------------------------
(* downloadWebPage, renderNodeToFile, renderMetadataToFile: the outcomes of  *)
(* one call on entry e of test-pages.  err is the returned error ("" is     *)
(* nil), e the entry afterwards, get and req count the calls of             *)
(* httpClient.Get and the requests sent, io tells whether an I/O call       *)
(* failed, cut whether source.html was left cut off, body is the response   *)
(* read to its end: its status code and its body.                           *)

Outcome(er, en, gt, rq, io, ct, bd) ==
    [err |-> er, e |-> en, get |-> gt, req |-> rq, io |-> io, cut |-> ct,
     body |-> bd]

\* http.Client.Get before anything is sent: the transport refuses a URL whose
\* scheme is not http(s) or that has no host
Sendable(u) ==
    /\ u.Scheme \in {<<"h","t","t","p">>, <<"h","t","t","p","s">>}
    /\ u.Host # <<>>

\* downloadWebPage with a response whose status code is not 200 returned as
\* an error
downloadWebPage_checkStatus(srcURL, e) ==
    LET u  == ParseRequestURI(srcURL)
        \* os.MkdirAll(fp.Dir(dstPath)): its error is dropped
        made == IF e.kind = "none" THEN [e EXCEPT !.kind = "dir"] ELSE e
    IN  IF u.err # ""
        THEN {Outcome("failed to parse URL", e, 0, 0, FALSE, FALSE, <<>>)}
        ELSE IF ~Sendable(u)
        THEN {Outcome("failed to fetch URL", e, 1, 0, FALSE, FALSE, <<>>)}
        ELSE \* the request is sent; the transport fails,
             {Outcome("failed to fetch URL", e, 1, 1, TRUE, FALSE, <<>>)}
             \* or the response is turned down for its status code,
             \cup {Outcome("failed to fetch URL", e, 1, 1, FALSE, FALSE, <<>>)}
             \* or os.Create fails,
             \cup {Outcome("failed to save file", x, 1, 1, TRUE, FALSE, <<>>) :
                     x \in {e, made}}
             \* or io.Copy fails after part of the body,
             \cup (IF made.src.type = "dir" THEN {}
                   ELSE UNION {{Outcome("failed to save file",
                                        [made EXCEPT !.src = Written(c)],
                                        1, 1, TRUE, TRUE, <<>>) :
                                  c \in Cut(b)} : b \in Bodies})
             \* or the whole body is saved
             \cup (IF made.src.type = "dir" THEN {}
                   ELSE {Outcome("", [made EXCEPT !.src = Written(b)],
                                 1, 1, FALSE, FALSE,
                                 [status |-> st, body |-> b]) :
                           b \in Bodies, st \in {200}})

downloadWebPage(srcURL, e) ==
    LET u  == ParseRequestURI(srcURL)
        \* os.MkdirAll(fp.Dir(dstPath)): its error is dropped
        made == IF e.kind = "none" THEN [e EXCEPT !.kind = "dir"] ELSE e
    IN  IF u.err # ""
        THEN {Outcome("failed to parse URL", e, 0, 0, FALSE, FALSE, <<>>)}
        ELSE IF ~Sendable(u)
        THEN {Outcome("failed to fetch URL", e, 1, 0, FALSE, FALSE, <<>>)}
        ELSE \* the request is sent; the transport fails,
             {Outcome("failed to fetch URL", e, 1, 1, TRUE, FALSE, <<>>)}
             \* or os.Create fails,
             \cup {Outcome("failed to save file", x, 1, 1, TRUE, FALSE, <<>>) :
                     x \in {e, made}}
             \* or io.Copy fails after part of the body,
             \cup (IF made.src.type = "dir" THEN {}
                   ELSE UNION {{Outcome("failed to save file",
                                        [made EXCEPT !.src = Written(c)],
                                        1, 1, TRUE, TRUE, <<>>) :
                                  c \in Cut(b)} : b \in Bodies})
             \* or the whole body is saved
             \cup (IF made.src.type = "dir" THEN {}
                   ELSE {Outcome("", [made EXCEPT !.src = Written(b)],
                                 1, 1, FALSE, FALSE,
                                 [status |-> st, body |-> b]) :
                           b \in Bodies, st \in Statuses})

\* the handles a call has opened on the path that ends in outcome o:
\* resp.Body once Get returned a response, dst or dstFile once os.Create
\* returned a file
opened(fn, o) ==
    IF fn = "downloadWebPage"
    THEN IF o.req = 0 \/ o.err = "failed to fetch URL" THEN {}
         ELSE IF o.err = "failed to save file" /\ ~o.cut THEN {"resp.Body"}
         ELSE {"resp.Body", "dst"}
    ELSE IF o.err \in {"failed to create html file",
                       "failed to create metadata file"} THEN {}
         ELSE {"dstFile"}

\* deferred without the defer resp.Body.Close() of downloadWebPage
deferred_noBody(fn) ==
    CASE fn = "generateTestcase"      -> {"srcFile"}
      [] fn = "downloadWebPage"       -> {"dst"}
      [] fn = "renderNodeToFile"      -> {"dstFile"}
      [] fn = "renderMetadataToFile"  -> {"dstFile"}

\* the handles whose Close a function defers, so that they are closed when
\* it returns (lines 105, 150, 158, 173, 183)
deferred(fn) ==
    CASE fn = "generateTestcase"      -> {"srcFile"}
      [] fn = "downloadWebPage"       -> {"resp.Body", "dst"}
      [] fn = "renderNodeToFile"      -> {"dstFile"}
      [] fn = "renderMetadataToFile"  -> {"dstFile"}

\* renderNodeToFile called with sourcePath for dstPath
renderNodeToFile_toSource(element, e) ==
    {Outcome("failed to create html file", e, 0, 0, TRUE, FALSE, <<>>)}
    \cup {Outcome("", [e EXCEPT !.src = Written(Render(element))],
                  0, 0, FALSE, FALSE, <<>>)}

\* renderNodeToFile opening expected.html for append instead of truncating it
renderNodeToFile_append(element, e) ==
    {Outcome("failed to create html file", e, 0, 0, TRUE, FALSE, <<>>)}
    \cup {Outcome("", [e EXCEPT !.html =
                         Written(e.html.data \o Render(element))],
                  0, 0, FALSE, FALSE, <<>>)}

renderNodeToFile(element, e) ==
    {Outcome("failed to create html file", e, 0, 0, TRUE, FALSE, <<>>)}
    \cup {Outcome("render failed", [e EXCEPT !.html = Written(c)],
                  0, 0, TRUE, FALSE, <<>>) : c \in Cut(Render(element))}
    \cup {Outcome("", [e EXCEPT !.html = Written(Render(element))],
                  0, 0, FALSE, FALSE, <<>>)}

\* renderMetadataToFile with readability.CheckDocument applied to the node of
\* the article in place of the document
renderMetadataToFile_onArticle(original, art, e) ==
    LET node == [root |-> Head(art.Node), children |-> Tail(art.Node)]
        bt == MarshalIndent(MetadataFields(art, CheckDocument(node)))
    IN  {Outcome("failed to create metadata file", e, 0, 0, TRUE, FALSE, <<>>)}
        \cup {Outcome("failed to write metadata file",
                      [e EXCEPT !.meta = Written(c)], 0, 0, TRUE, FALSE, <<>>) :
                c \in Cut(bt)}
        \cup {Outcome("sync failed", [e EXCEPT !.meta = Written(bt)],
                      0, 0, TRUE, FALSE, <<>>)}
        \cup {Outcome("", [e EXCEPT !.meta = File(bt)],
                      0, 0, FALSE, FALSE, <<>>)}

renderMetadataToFile(original, art, e) ==
    LET bt == MarshalIndent(MetadataFields(art, CheckDocument(original)))
    IN  {Outcome("failed to create metadata file", e, 0, 0, TRUE, FALSE, <<>>)}
        \cup {Outcome("failed to write metadata file",
                      [e EXCEPT !.meta = Written(c)], 0, 0, TRUE, FALSE, <<>>) :
                c \in Cut(bt)}
        \cup {Outcome("sync failed", [e EXCEPT !.meta = Written(bt)],
                      0, 0, TRUE, FALSE, <<>>)}
        \cup {Outcome("", [e EXCEPT !.meta = File(bt)],
                      0, 0, FALSE, FALSE, <<>>)}

-----------------------------------------------------------------------------
(* The process *)

TestNames == {"", "a", "all"}

\* os.Args: the program name, then the arguments
ArgvSet ==
    {<<>>, <<"tool">>, <<"tool", "a", <<>>, "more">>}
    \cup {<<"tool", n>> : n \in TestNames}
    \cup {<<"tool", n, u>> : n \in TestNames, u \in URLs}

UsageMsgs == {"need at least one argument", "allowed max two arguments",
              "test name must be defined"}

\* mainArgs without the default branch of the switch: arguments after the
\* second are ignored
mainArgs_noDefault(a) ==
    LET testName  == IF Len(a) >= 2 THEN a[2] ELSE ""
        sourceURL == IF Len(a) >= 3 THEN a[3] ELSE <<>>
        res(f)    == [fatal |-> f, testName |-> testName,
                      sourceURL |-> sourceURL]
    IN  IF Len(a) = 0 THEN res("need at least one argument")
        ELSE IF testName = "" THEN res("test name must be defined")
        ELSE IF sourceURL # <<>> /\ ParseRequestURI(sourceURL).err # ""
        THEN res("URL is not valid")
        ELSE res("")

\* main, lines 25-49: the arguments; fatal is the message of log.Fatal, ""
\* when main goes on
mainArgs(a) ==
    LET testName  == IF Len(a) \in {2, 3} THEN a[2] ELSE ""
        sourceURL == IF Len(a) = 3 THEN a[3] ELSE <<>>
        res(f)    == [fatal |-> f, testName |-> testName,
                      sourceURL |-> sourceURL]
    IN  IF Len(a) = 0 THEN res("need at least one argument")
        ELSE IF Len(a) \notin {2, 3} THEN res("allowed max two arguments")
        ELSE IF testName = "" THEN res("test name must be defined")
        ELSE IF sourceURL # <<>> /\ ParseRequestURI(sourceURL).err # ""
        THEN res("URL is not valid")
        ELSE res("")

\* afterCase that logs the error of a batch case and goes on with the loop
afterCase_keepGoing(e, inBatch) ==
    IF inBatch THEN "continue"
    ELSE IF e # "" THEN "fatal"
    ELSE "return"

\* main, lines 68-70 and 77-79: what main does with the error of the case
afterCase(e, inBatch) ==
    IF e # "" THEN "fatal"
    ELSE IF inBatch THEN "continue"
    ELSE "return"

\* isBatch with the name compared to another spelling
isBatch_otherName(testName) == testName = "ALL"

\* main, line 52: the test name that selects the batch branch
isBatch(testName) == testName = "all"

NoExit == [code |-> -1, msg |-> "", name |-> ""]
NoCall == [testName |-> "", sourceURL |-> <<>>]
NoPrev == [valid |-> FALSE, testName |-> "", sourceURL |-> <<>>,
           ok |-> FALSE, fault |-> FALSE, src0 |-> NoFile, src |-> NoFile,
           html |-> NoFile, meta |-> NoFile]

InitFS == {f \in [EntryNames -> UNION {InitEntries(n) : n \in EntryNames}] :
             \A n \in EntryNames : f[n] \in InitEntries(n)}

Init ==
    /\ fs \in InitFS
    /\ pc = "idle"
    /\ argv = <<>>
    /\ batch = FALSE
    /\ dirItems = <<>>
    /\ idx = 0
    /\ cur = NoCall
    /\ doc = NoDoc
    /\ article = NoArticle
    /\ err = ""
    /\ exit = NoExit
    /\ runs = 0
    /\ fs0 = fs
    /\ call0 = [fs |-> fs, gets |-> 0, reqs |-> 0]
    /\ netGets = 0
    /\ netReqs = 0
    /\ fetched = <<>>
    /\ status = 0
    /\ handles = {}
    /\ outs = <<>>
    /\ fsUsed = FALSE
    /\ stages = <<>>
    /\ started = <<>>
    /\ partial = {}
    /\ fault = FALSE
    /\ prev = NoPrev

\* log.Fatal, or a panic: the process is gone
Die(code, msg, name) ==
    /\ pc' = "exited"
    /\ exit' = [code |-> code, msg |-> msg, name |-> name]

\* Call with the URL of the command line handed on to every case of the
\* batch
Call_passURL(testName, sourceURL) ==
    /\ pc' = "acquire"
    /\ cur' = [testName |-> testName,
               sourceURL |-> IF Len(argv) = 3 THEN argv[3] ELSE sourceURL]
    /\ doc' = NoDoc
    /\ article' = NoArticle
    /\ err' = ""
    /\ call0' = [fs |-> fs, gets |-> netGets', reqs |-> netReqs']
    /\ stages' = <<"Start">>
    /\ started' = Append(started, testName)
    /\ fault' = FALSE

\* main, line 67: the call generateTestcase(item.Name(), "") of the batch
\* loop begins (line 83)
Call(testName, sourceURL) ==
    /\ pc' = "acquire"
    /\ cur' = [testName |-> testName, sourceURL |-> sourceURL]
    /\ doc' = NoDoc
    /\ article' = NoArticle
    /\ err' = ""
    /\ call0' = [fs |-> fs, gets |-> netGets', reqs |-> netReqs']
    /\ stages' = <<"Start">>
    /\ started' = Append(started, testName)
    /\ fault' = FALSE

\* main, lines 23-52 and 76: the arguments, then the batch branch or the one
\* call of generateTestcase
main(a) ==
    /\ pc \in {"idle", "exited"}
    /\ runs < MaxRuns
    /\ runs' = runs + 1
    /\ argv' = a
    /\ fs0' = fs
    /\ netGets' = 0
    /\ netReqs' = 0
    /\ outs' = <<>>
    /\ fsUsed' = FALSE
    /\ dirItems' = <<>>
    /\ idx' = 0
    /\ handles' = {}
    /\ UNCHANGED <<fs, partial, prev, fetched, status>>
    /\ LET r == mainArgs(a) IN
       IF r.fatal # "" \/ isBatch(r.testName)
       THEN /\ IF r.fatal # ""
               THEN Die(1, r.fatal, "") /\ batch' = FALSE
               ELSE pc' = "readdir" /\ exit' = NoExit /\ batch' = TRUE
            /\ stages' = <<>>
            /\ started' = <<>>
            /\ UNCHANGED <<cur, doc, article, err, call0, fault>>
       ELSE /\ batch' = FALSE
            /\ exit' = NoExit
            /\ started' = <<r.testName>>
            /\ pc' = "acquire"
            /\ cur' = [testName |-> r.testName, sourceURL |-> r.sourceURL]
            /\ doc' = NoDoc
            /\ article' = NoArticle
            /\ err' = ""
            /\ call0' = [fs |-> fs, gets |-> 0, reqs |-> 0]
            /\ stages' = <<"Start">>
            /\ fault' = FALSE

\* main, lines 53-56: ioutil.ReadDir("test-pages")
main_ReadDir ==
    /\ pc = "readdir"
    /\ fsUsed' = TRUE
    /\ UNCHANGED <<fs, argv, batch, cur, doc, article, err, runs, fs0, call0,
                   netGets, netReqs, fetched, status, handles, outs, stages,
                   started, partial, fault, prev>>
    /\ \/ /\ Die(1, "failed to read test dir", "")
          /\ UNCHANGED <<dirItems, idx>>
       \/ /\ dirItems' = SelectSeq(Entries, LAMBDA n : fs[n].kind # "none")
          /\ idx' = 1
          /\ pc' = "loop"
          /\ UNCHANGED exit

\* main, lines 58-67 and 73: one item of the range loop
main_Loop ==
    /\ pc = "loop"
    /\ UNCHANGED <<fs, argv, batch, dirItems, runs, fs0, netGets, netReqs,
                   fetched, status, handles, outs, partial, prev>>
    /\ IF idx > Len(dirItems)
       THEN /\ Die(0, "", "")
            /\ UNCHANGED <<idx, cur, doc, article, err, call0, fsUsed,
                           stages, started, fault>>
       ELSE LET item == dirItems[idx] IN
            IF fs[item].kind \notin {"dir", "lockdir"}
            THEN /\ idx' = idx + 1
                 /\ UNCHANGED <<pc, exit, cur, doc, article, err, call0,
                                fsUsed, stages, started, fault>>
            ELSE /\ fsUsed' = TRUE
                 /\ CASE fileExists(item) = "panic" ->
                           /\ Die(2, "panic: nil pointer dereference", "")
                           /\ UNCHANGED <<idx, cur, doc, article, err, call0,
                                          stages, started, fault>>
                      [] fileExists(item) = "false" ->
                           /\ idx' = idx + 1
                           /\ UNCHANGED <<pc, exit, cur, doc, article, err,
                                          call0, stages, started, fault>>
                      [] fileExists(item) = "true" ->
                           /\ Call(item, <<>>)
                           /\ UNCHANGED <<idx, exit>>

\* generateTestcase, lines 88-98: reuse source.html or download it
generateTestcase_Acquire ==
    /\ pc = "acquire"
    /\ stages' = Append(stages, "Acquire")
    /\ fsUsed' = TRUE
    /\ UNCHANGED <<argv, batch, dirItems, idx, cur, doc, article, runs, fs0,
                   call0, outs, started, prev>>
    /\ LET n == cur.testName IN
       CASE fileExists(n) = "panic" ->
              /\ Die(2, "panic: nil pointer dereference", "")
              /\ UNCHANGED <<fs, err, netGets, netReqs, fetched, status,
                             handles, partial, fault>>
         [] fileExists(n) = "true" /\ cur.sourceURL = <<>> ->
              /\ pc' = "extract"
              /\ UNCHANGED <<fs, err, exit, netGets, netReqs, fetched,
                             status, handles, partial, fault>>
         [] OTHER ->
              \E o \in downloadWebPage(cur.sourceURL, fs[n]) :
                /\ fs' = [fs EXCEPT ![n] = o.e]
                /\ netGets' = netGets + o.get
                /\ netReqs' = netReqs + o.req
                /\ fetched' = IF o.err = "" THEN o.body.body ELSE fetched
                /\ status' = IF o.err = "" THEN o.body.status ELSE status
                /\ handles' = (handles \cup opened("downloadWebPage", o))
                                 \ deferred("downloadWebPage")
                /\ fault' = (fault \/ o.io)
                /\ partial' = IF o.cut THEN partial \cup {n}
                              ELSE IF o.err = "" THEN partial \ {n}
                              ELSE partial
                /\ err' = IF o.err = "" THEN ""
                          ELSE "failed to download source"
                /\ pc' = IF o.err = "" THEN "extract" ELSE "return"
                /\ UNCHANGED exit

\* generateTestcase_Extract with expected.html created before the source is
\* opened
generateTestcase_Extract_createFirst ==
    /\ pc = "extract"
    /\ stages' = Append(stages, "Extract")
    /\ fs' = [fs EXCEPT ![cur.testName].html = Written(<<>>)]
    /\ UNCHANGED <<argv, batch, dirItems, idx, cur, exit, runs, fs0,
                   call0, netGets, netReqs, fetched, status, outs, fsUsed,
                   started, partial, prev>>
    /\ LET src == fs[cur.testName].src
           d   == Parse(src.data)
           art == FromDocument(d)
           \* srcFile is open from line 101 on; a return closes what
           \* generateTestcase deferred
           open   == handles \cup {"srcFile"}
           closed == open \ deferred("generateTestcase")
       IN  \/ /\ err' = "failed to open source"
              /\ fault' = TRUE
              /\ pc' = "return"
              /\ UNCHANGED <<doc, article, handles>>
           \/ /\ err' = "failed to decode source"
              /\ fault' = TRUE
              /\ pc' = "return"
              /\ handles' = closed
              /\ UNCHANGED <<doc, article>>
           \/ /\ src.type = "file"
              /\ doc' = DocAfterExtract(d)
              /\ UNCHANGED fault
              /\ IF art.err # ""
                 THEN /\ err' = "failed to parse source"
                      /\ pc' = "return"
                      /\ handles' = closed
                      /\ UNCHANGED article
                 ELSE /\ article' = art
                      /\ pc' = "serialize"
                      /\ handles' = open
                      /\ UNCHANGED err

\* generateTestcase, lines 100-117: open, parse, extract
generateTestcase_Extract ==
    /\ pc = "extract"
    /\ stages' = Append(stages, "Extract")
    /\ UNCHANGED <<fs, argv, batch, dirItems, idx, cur, exit, runs, fs0,
                   call0, netGets, netReqs, fetched, status, outs, fsUsed,
                   started, partial, prev>>
    /\ LET src == fs[cur.testName].src
           d   == Parse(src.data)
           art == FromDocument(d)
           \* srcFile is open from line 101 on; a return closes what
           \* generateTestcase deferred
           open   == handles \cup {"srcFile"}
           closed == open \ deferred("generateTestcase")
       IN  \/ /\ err' = "failed to open source"
              /\ fault' = TRUE
              /\ pc' = "return"
              /\ UNCHANGED <<doc, article, handles>>
           \/ /\ err' = "failed to decode source"
              /\ fault' = TRUE
              /\ pc' = "return"
              /\ handles' = closed
              /\ UNCHANGED <<doc, article>>
           \/ /\ src.type = "file"
              /\ doc' = DocAfterExtract(d)
              /\ UNCHANGED fault
              /\ IF art.err # ""
                 THEN /\ err' = "failed to parse source"
                      /\ pc' = "return"
                      /\ handles' = closed
                      /\ UNCHANGED article
                 ELSE /\ article' = art
                      /\ pc' = "serialize"
                      /\ handles' = open
                      /\ UNCHANGED err

\* generateTestcase, lines 119-131: expected.html, then expected-metadata.json
generateTestcase_Serialize ==
    /\ pc = "serialize"
    /\ UNCHANGED <<argv, batch, dirItems, idx, cur, doc, article, exit, runs,
                   fs0, call0, netGets, netReqs, fetched, status, outs,
                   fsUsed, started, partial, prev>>
    /\ pc' = "return"
    /\ LET n == cur.testName IN
       \E h \in renderNodeToFile(article.Node, fs[n]) :
         LET afterNode == (handles \cup opened("renderNodeToFile", h))
                            \ deferred("renderNodeToFile")
         IN
         IF h.err # ""
         THEN /\ fs' = [fs EXCEPT ![n] = h.e]
              /\ err' = "failed to render result"
              /\ fault' = TRUE
              /\ stages' = Append(stages, "Serialize")
              /\ handles' = afterNode \ deferred("generateTestcase")
         ELSE \E m \in renderMetadataToFile(doc, article, h.e) :
                /\ fs' = [fs EXCEPT ![n] = m.e]
                /\ handles' = ((afterNode
                                  \cup opened("renderMetadataToFile", m))
                                 \ deferred("renderMetadataToFile"))
                                \ deferred("generateTestcase")
                /\ err' = IF m.err = "" THEN ""
                          ELSE "failed to render metadata"
                /\ fault' = (fault \/ m.io)
                /\ stages' = IF m.err = ""
                             THEN stages \o <<"Serialize", "Done">>
                             ELSE Append(stages, "Serialize")

\* main, lines 68-70 and 77-79: generateTestcase has returned
main_Return ==
    /\ pc = "return"
    /\ prev' = [valid |-> TRUE, testName |-> cur.testName,
                sourceURL |-> cur.sourceURL, ok |-> (err = ""),
                fault |-> fault, src0 |-> call0.fs[cur.testName].src,
                src |-> fs[cur.testName].src,
                html |-> fs[cur.testName].html,
                meta |-> fs[cur.testName].meta]
    /\ outs' = IF err = ""
               THEN Append(outs, [name |-> cur.testName,
                                  html |-> fs[cur.testName].html,
                                  meta |-> fs[cur.testName].meta])
               ELSE outs
    /\ UNCHANGED <<fs, argv, batch, dirItems, cur, doc, article, err, runs,
                   fs0, call0, netGets, netReqs, fetched, status, handles,
                   fsUsed, stages, started, partial, fault>>
    /\ LET todo == afterCase(err, batch) IN
       CASE todo = "fatal" ->
              /\ Die(1, "failed to generate test for", cur.testName)
              /\ UNCHANGED idx
         [] todo = "continue" ->
              /\ pc' = "loop"
              /\ idx' = idx + 1
              /\ UNCHANGED exit
         [] todo = "return" ->
              /\ Die(0, "", "")
              /\ UNCHANGED idx

Next ==
    \/ \E a \in ArgvSet : main(a)
    \/ main_ReadDir
    \/ main_Loop
    \/ generateTestcase_Acquire
    \/ generateTestcase_Extract
    \/ generateTestcase_Serialize
    \/ main_Return

Spec == Init /\ [][Next]_vars

\* renderMetadataToFile as a function of its arguments: generateTestcase stands
\* before its Serialize stage with any article and any document
Strs == {"", "x"}

Articles ==
    {[err |-> "", Node |-> <<"div", "p">>, Title |-> t, Byline |-> b,
      Excerpt |-> x, Language |-> l, SiteName |-> s] :
        t \in Strs, b \in Strs, x \in Strs, l \in Strs, s \in Strs}

Docs == {Parse(<<"p">>), Parse(<<"p", "p">>)}

InitMeta ==
    /\ fs = [n \in EntryNames |->
              IF n = "a" THEN Entry("dir", File(<<"p">>)) ELSE NoEntry]
    /\ pc = "serialize"
    /\ argv = <<"tool", "a">>
    /\ batch = FALSE
    /\ dirItems = <<>>
    /\ idx = 0
    /\ cur = [testName |-> "a", sourceURL |-> <<>>]
    /\ doc \in Docs
    /\ article \in Articles
    /\ err = ""
    /\ exit = NoExit
    /\ runs = MaxRuns
    /\ fs0 = fs
    /\ call0 = [fs |-> fs, gets |-> 0, reqs |-> 0]
    /\ netGets = 0
    /\ netReqs = 0
    /\ fetched = <<>>
    /\ status = 0
    /\ handles = {}
    /\ outs = <<>>
    /\ fsUsed = TRUE
    /\ stages = <<"Start", "Acquire", "Extract">>
    /\ started = <<"a">>
    /\ partial = {}
    /\ fault = FALSE
    /\ prev = NoPrev

NextMeta ==
    \/ generateTestcase_Serialize
    \/ main_Return

SpecMeta == InitMeta /\ [][NextMeta]_vars

-----------------------------------------------------------------------------
(* Properties *)

\* a call of generateTestcase is running, or was the last thing the
\* invocation did
InCall == stages # <<>>

Last(s) == s[Len(s)]

\* the call found source.html as a regular file and was given no URL
Reusing ==
    /\ InCall
    /\ cur.sourceURL = <<>>
    /\ call0.fs[cur.testName].kind = "dir"
    /\ call0.fs[cur.testName].src.type = "file"

\* C1 (Reuse): a call of generateTestcase that finds source.html as a regular
\* file and has an empty URL never calls httpClient.Get, sends no request, and
\* leaves source.html as it found it, at every point of the call and whether
\* it ends in success or in an error.
C1_Reuse ==
    Reusing =>
        /\ netGets = call0.gets
        /\ netReqs = call0.reqs
        /\ fs[cur.testName].src = call0.fs[cur.testName].src

C1_Witness ==
    /\ Reusing
    /\ pc = "return"
    /\ err = ""
    /\ Last(stages) = "Done"

\* C2 (Force-refresh): a call of generateTestcase with a non-empty URL has
\* called httpClient.Get once its Acquire stage is over, whether or not
\* source.html existed, and when the download succeeded source.html holds
\* exactly the fetched body when the Extract stage is about to read it.
C2_ForceRefresh ==
    (InCall /\ cur.sourceURL # <<>> /\ Len(stages) >= 2) =>
        /\ netGets > call0.gets
        /\ pc = "extract" =>
             /\ fs[cur.testName].src.type = "file"
             /\ fs[cur.testName].src.data = fetched

\* an absolute URI: it parses and has a scheme
Absolute(u) ==
    LET r == ParseRequestURI(u) IN r.err = "" /\ r.Scheme # <<>>

\* C3 (URL validation): an invocation whose URL argument is not an absolute
\* URL ends in main with the validation error, having made no file-system
\* call, sent no request and changed nothing on disk.
C3_URLValidation ==
    (runs > 0 /\ Len(argv) = 3 /\ argv[2] # "" /\ argv[3] # <<>>
       /\ ~Absolute(argv[3])) =>
        /\ pc = "exited"
        /\ exit.msg = "URL is not valid"
        /\ ~fsUsed
        /\ netGets = 0
        /\ netReqs = 0
        /\ fs = fs0

\* C4 (Failed download leaves no half-written source): no source.html on disk
\* is the cut-off body of a failed download, so no later call without a URL
\* goes on to Extract with such a file.
C4_NoPartialSource ==
    /\ partial = {}
    /\ (pc = "extract" /\ cur.sourceURL = <<>>) => cur.testName \notin partial

\* the keys of a marshalled JSON object
Keys(bt) == {bt[i][1] : i \in 1..Len(bt)}

\* C5 (Metadata omission): the object written to expected-metadata.json has
\* the key title, byline, excerpt, language or siteName exactly when that
\* field of the article is a non-empty string, and has the key readerable
\* exactly once, with a boolean value.
C5_MetadataOmission ==
    (pc \in {"return", "exited"} /\ err = "" /\ Last(stages) = "Done") =>
        LET bt == fs[cur.testName].meta.data IN
        /\ ("title" \in Keys(bt)) <=> (article.Title # "")
        /\ ("byline" \in Keys(bt)) <=> (article.Byline # "")
        /\ ("excerpt" \in Keys(bt)) <=> (article.Excerpt # "")
        /\ ("language" \in Keys(bt)) <=> (article.Language # "")
        /\ ("siteName" \in Keys(bt)) <=> (article.SiteName # "")
        /\ Cardinality({i \in 1..Len(bt) : bt[i][1] = "readerable"}) = 1
        /\ \A i \in 1..Len(bt) :
             bt[i][1] = "readerable" => bt[i][2] \in BOOLEAN

C5_Witness ==
    /\ pc = "return"
    /\ err = ""
    /\ Last(stages) = "Done"
    /\ article.Title = ""
    /\ article.Byline # ""
    /\ article.SiteName = ""
    /\ ~CheckDocument(doc)
    /\ fs[cur.testName].meta.data =
         << <<"byline", article.Byline>>, <<"excerpt", article.Excerpt>>,
            <<"language", article.Language>>, <<"readerable", FALSE>> >>

\* the entry is a directory that holds source.html as a file
Qualifies(f, n) == f[n].kind = "dir" /\ f[n].src.type = "file"

Pos(n) == CHOOSE i \in 1..Len(Entries) : Entries[i] = n

Names(s) == {s[i] : i \in 1..Len(s)}

\* C6 (Batch selection): in batch mode generateTestcase is called only for
\* directories that hold source.html, a run that comes to its end has called
\* it for every such directory, every other entry is left untouched, and no
\* such entry makes the run fail: the run ends with exit status 0, with the
\* failure of ReadDir, or with the failure of a case it called.
C6_BatchSelection ==
    batch =>
        /\ \A n \in Names(started) : Qualifies(fs0, n)
        /\ \A n \in EntryNames : ~Qualifies(fs0, n) => fs[n] = fs0[n]
        /\ (pc = "exited" /\ exit.code = 0) =>
             \A n \in EntryNames : Qualifies(fs0, n) => n \in Names(started)
        /\ (pc = "exited" /\ exit.code # 0) =>
             \/ exit.msg = "failed to read test dir"
             \/ exit.msg = "failed to generate test for"
                  /\ exit.name \in Names(started)

\* C7 (Fail-fast batch): in batch mode the cases are called in the order of
\* the listing, a case is called only when every case called before it
\* succeeded, the outputs a successful case wrote stay on disk as written, and
\* when a case fails the report names it, it is the last case called, and no
\* entry listed after it has been touched.
C7_FailFast ==
    batch =>
        /\ \A i, j \in 1..Len(started) :
             i < j => Pos(started[i]) < Pos(started[j])
        /\ Len(outs) >= Len(started) - 1
        /\ \A i \in 1..Len(outs) :
             /\ outs[i].name = started[i]
             /\ fs[outs[i].name].html = outs[i].html
             /\ fs[outs[i].name].meta = outs[i].meta
             /\ outs[i].html.type = "file"
             /\ outs[i].meta.type = "file"
        /\ (pc = "exited" /\ exit.msg = "failed to generate test for") =>
             /\ exit.code = 1
             /\ exit.name = Last(started)
             /\ Len(outs) = Len(started) - 1
             /\ \A n \in EntryNames :
                  Pos(n) > Pos(exit.name) => fs[n] = fs0[n]

C7_Witness ==
    /\ batch
    /\ pc = "exited"
    /\ exit.msg = "failed to generate test for"
    /\ started = <<"a", "all">>
    /\ exit.name = "all"
    /\ Qualifies(fs0, "b")
    /\ Len(outs) = 1
    /\ fs["a"].html = outs[1].html

\* the same bytes in the same kind of file
Same(f, g) == f.type = g.type /\ f.data = g.data

\* generateTestcase has run to its return for the second time in a row on the
\* same case, both times without a URL and on the same source.html bytes
Twice ==
    /\ pc = "return"
    /\ prev.valid
    /\ prev.testName = cur.testName
    /\ prev.sourceURL = <<>>
    /\ cur.sourceURL = <<>>
    /\ prev.src0.type = "file"
    /\ Same(call0.fs[cur.testName].src, prev.src0)

Identical ==
    /\ prev.ok <=> (err = "")
    /\ Same(fs[cur.testName].html, prev.html)
    /\ Same(fs[cur.testName].meta, prev.meta)

StageOrder == <<"Start", "Acquire", "Extract", "Serialize", "Done">>

\* C9 (Case state machine): the stages of a call of generateTestcase are a
\* prefix of Start, Acquire, Extract, Serialize, Done; an error ends the call
\* at once, short of Done; and a call that ended the process short of Done
\* ended it with the failure report that names the test case.
C9_StateMachine ==
    InCall =>
        /\ Len(stages) <= Len(StageOrder)
        /\ stages = SubSeq(StageOrder, 1, Len(stages))
        /\ err # "" => (pc \in {"return", "exited"} /\ Last(stages) # "Done")
        /\ (pc = "exited" /\ Last(stages) # "Done") =>
             /\ exit.code = 1
             /\ exit.msg = "failed to generate test for"
             /\ exit.name = cur.testName

\* os.Args holds no argument, more than two, or an empty test name
UsageError(a) == Len(a) \notin {2, 3} \/ a[2] = ""

\* C10 (Usage errors): an invocation with no argument, more than two, or an
\* empty test name ends in main with a non-zero exit status and a usage
\* message, before any file-system call or request and before ReadDir or
\* generateTestcase; any other invocation never ends with a usage message.
C10_UsageErrors ==
    runs > 0 =>
        IF UsageError(argv)
        THEN /\ pc = "exited"
             /\ exit.code > 0
             /\ exit.msg \in UsageMsgs
             /\ ~fsUsed
             /\ netGets = 0
             /\ netReqs = 0
             /\ fs = fs0
             /\ ~batch
             /\ started = <<>>
             /\ ~InCall
        ELSE exit.msg \notin UsageMsgs

C10_Witness ==
    /\ runs > 0
    /\ Len(argv) = 4
    /\ pc = "exited"
    /\ exit.msg = "allowed max two arguments"

\* generateTestcase has returned nil
Succeeded == pc = "return" /\ err = ""

\* C11 (Sync before success): whenever generateTestcase returns nil, both
\* expected.html and expected-metadata.json hold all of their bytes and have
\* been synced to storage.
C11_SyncBeforeSuccess ==
    Succeeded =>
        /\ fs[cur.testName].html.type = "file"
        /\ fs[cur.testName].html.data = Render(article.Node)
        /\ fs[cur.testName].html.synced
        /\ fs[cur.testName].meta.type = "file"
        /\ fs[cur.testName].meta.synced

\* the call began on a case whose two output files both existed
HadOutputs ==
    /\ InCall
    /\ call0.fs[cur.testName].html.type = "file"
    /\ call0.fs[cur.testName].meta.type = "file"

\* both output files hold all the bytes this call computed for them
BothNew ==
    /\ article # NoArticle
    /\ fs[cur.testName].html.type = "file"
    /\ fs[cur.testName].html.data = Render(article.Node)
    /\ fs[cur.testName].meta.type = "file"
    /\ fs[cur.testName].meta.data =
           MarshalIndent(MetadataFields(article, CheckDocument(doc)))

\* both output files are as the call found them
BothOld ==
    /\ Same(fs[cur.testName].html, call0.fs[cur.testName].html)
    /\ Same(fs[cur.testName].meta, call0.fs[cur.testName].meta)

\* C12 (Output pair replaced atomically), as claimed: after any call on a case
\* that had both output files, ended in success or in a failure of any stage,
\* the two files are both this call's complete output or both as they were.
C12_AtomicPair ==
    (pc = "return" /\ HadOutputs) => (BothNew \/ BothOld)

\* C12, amended: after a call on a case that had both output files, success
\* means both files are this call's complete output, and a failure before
\* renderNodeToFile was called means both are as they were; a failure of
\* renderNodeToFile leaves expected-metadata.json as it was, and nothing
\* more is promised after a failure of either of the two writes: it is not
\* rolled back.
C12_PairReplaced ==
    (pc = "return" /\ HadOutputs) =>
        /\ (err = "" => BothNew)
        /\ ("Serialize" \notin Names(stages) => BothOld)
        /\ (err = "failed to render result" =>
               Same(fs[cur.testName].meta, call0.fs[cur.testName].meta))

\* a successful call has replaced both files by content that differs from
\* what it found
C12_Witness ==
    /\ Succeeded
    /\ HadOutputs
    /\ fs[cur.testName].html.data # call0.fs[cur.testName].html.data
    /\ fs[cur.testName].meta.data # call0.fs[cur.testName].meta.data

\* the call has returned an error from os.Open, dom.Parse or
\* readability.FromDocument
ExtractFailed ==
    /\ pc = "return"
    /\ err \in {"failed to open source", "failed to decode source",
                "failed to parse source"}

\* C13 (No partial output on parse or extraction failure): a call that fails
\* to open or parse source.html, or whose extraction returns an error, leaves
\* expected.html and expected-metadata.json as they were: not created, not
\* truncated, not modified.
C13_NoPartialOutput ==
    ExtractFailed =>
        /\ fs[cur.testName].html = call0.fs[cur.testName].html
        /\ fs[cur.testName].meta = call0.fs[cur.testName].meta
        /\ "Serialize" \notin Names(stages)

\* the extraction failed on a case that had both output files
C13_Witness ==
    /\ ExtractFailed
    /\ err = "failed to parse source"
    /\ HadOutputs
    /\ fs[cur.testName].html.data # <<>>

\* the value written under the key readerable
ReaderableOf(bt) ==
    LET i == CHOOSE k \in 1..Len(bt) : bt[k][1] = "readerable" IN bt[i][2]

\* C14 (Readerable computed on the original document): the readerable value a
\* successful call writes is readability.CheckDocument of the document as
\* dom.Parse produced it from source.html, which is the document the call
\* still holds after readability.FromDocument returned.
C14_ReaderableOnOriginal ==
    Succeeded =>
        /\ doc = Parse(fs[cur.testName].src.data)
        /\ ReaderableOf(fs[cur.testName].meta.data) =
               CheckDocument(Parse(fs[cur.testName].src.data))

\* a successful call on a source whose document and whose extracted node are
\* judged differently
C14_Witness ==
    /\ Succeeded
    /\ CheckDocument(doc)
    /\ ~CheckDocument([root |-> Head(article.Node),
                       children |-> Tail(article.Node)])
    /\ ReaderableOf(fs[cur.testName].meta.data)

\* C15 (Batch mode never overrides the source): in a run with the test name
\* all, whatever the second argument, every call of generateTestcase has an
\* empty URL, httpClient.Get is never called, no request is sent, and the
\* source.html of every entry stays as the run found it.
C15_BatchKeepsSource ==
    batch =>
        /\ (InCall => cur.sourceURL = <<>>)
        /\ netGets = 0
        /\ netReqs = 0
        /\ \A n \in EntryNames : fs[n].src = fs0[n].src

\* a batch run that was given a valid URL has regenerated a case and ended
C15_Witness ==
    /\ batch
    /\ Len(argv) = 3
    /\ argv[3] = URL_http
    /\ pc = "exited"
    /\ exit.code = 0
    /\ Len(outs) >= 1

\* C16 (Handles released on every exit path): the handles downloadWebPage,
\* renderNodeToFile and renderMetadataToFile open are closed when they
\* return, so between the steps of generateTestcase only the read handle on
\* source.html can be open, and once generateTestcase has returned, with nil
\* or with any error, the process holds no open handle.
C16_HandlesReleased ==
    /\ handles \subseteq {"srcFile"}
    /\ pc # "serialize" => handles = {}

\* a call that had opened source.html for reading has seen a write of
\* expected-metadata.json fail and has returned
C16_Witness ==
    /\ pc = "return"
    /\ err = "failed to render metadata"
    /\ fs[cur.testName].meta.type = "file"
    /\ handles = {}

\* the call was given no URL and began with no regular file source.html
NoFileNoURL ==
    /\ InCall
    /\ cur.sourceURL = <<>>
    /\ call0.fs[cur.testName].src.type # "file"

\* C17 (Degenerate case: no file, no URL): a call with an empty URL on a case
\* whose source.html is missing or not a regular file goes into
\* downloadWebPage and returns its error: no request is sent, neither
\* source.html nor its directory is created, and the open, parse, extract and
\* write steps are never reached.
C17_NoFileNoURL ==
    (NoFileNoURL /\ pc \in {"extract", "serialize", "return", "exited"}) =>
        /\ stages = <<"Start", "Acquire">>
        /\ err = "failed to download source"
        /\ exit.code # 2
        /\ netReqs = call0.reqs
        /\ fs = call0.fs

\* downloadWebPage has returned in this call after its request was sent
Downloaded ==
    /\ stages = <<"Start", "Acquire">>
    /\ pc \in {"extract", "return"}
    /\ netReqs > call0.reqs

\* C18 (Non-2xx responses are saved): when the request of downloadWebPage was
\* answered and no I/O call failed (transport, os.Create, io.Copy), the call
\* returns nil whatever the status code of the response, source.html holds
\* the body of the response, and generateTestcase goes on to open and parse
\* it.
C18_AnyStatusSaved ==
    (Downloaded /\ ~fault) =>
        /\ err = ""
        /\ pc = "extract"
        /\ status \in Statuses
        /\ fs[cur.testName].src.type = "file"
        /\ fs[cur.testName].src.data = fetched

\* a response with status 404 has been saved as source.html and the call
\* goes on
C18_Witness ==
    /\ Downloaded
    /\ pc = "extract"
    /\ status = 404
    /\ fs[cur.testName].src.data = fetched
    /\ fetched # <<>>

\* what the engine extracts from the bytes source.html holds now
FromSource(n) == FromDocument(Parse(fs[n].src.data))

\* C19 (Success postcondition): when generateTestcase returns nil, source.html,
\* expected.html and expected-metadata.json are all regular files, and both
\* outputs were written by this call from the bytes source.html holds at that
\* moment: expected.html is the rendered node of the article extracted from
\* the parsed source, expected-metadata.json the marshalled fields of the
\* same article with the readerable value of the parsed source.
C19_SuccessPostcondition ==
    Succeeded =>
        LET n == cur.testName IN
        /\ stages = <<"Start", "Acquire", "Extract", "Serialize", "Done">>
        /\ fs[n].src.type = "file"
        /\ fs[n].html.type = "file"
        /\ fs[n].meta.type = "file"
        /\ FromSource(n).err = ""
        /\ article = FromSource(n)
        /\ fs[n].html.data = Render(FromSource(n).Node)
        /\ fs[n].meta.data =
               MarshalIndent(MetadataFields(FromSource(n),
                                            CheckDocument(Parse(fs[n].src.data))))

\* a call that downloaded its source over an older one has succeeded on a
\* case that had outputs of the older source
C19_Witness ==
    /\ Succeeded
    /\ HadOutputs
    /\ netReqs > call0.reqs
    /\ fs[cur.testName].src.data # call0.fs[cur.testName].src.data
    /\ fs[cur.testName].html.data # call0.fs[cur.testName].html.data

\* the process was started with the test name all
NamedAll == runs > 0 /\ Len(argv) \in {2, 3} /\ argv[2] = "all"

\* C20 (Reserved name all): a run with the test name all that passes the
\* checks of its arguments is a batch run.  It never calls httpClient.Get,
\* never creates or writes test-pages/all/source.html, and calls
\* generateTestcase for the entry all only from the batch loop, with an empty
\* URL, when all is a directory that held source.html; outside a batch run
\* generateTestcase is never called for all.
C20_ReservedName ==
    /\ NamedAll =>
         /\ batch \/ (pc = "exited" /\ exit.msg = "URL is not valid")
         /\ ~batch => started = <<>>
         /\ netGets = 0
         /\ fs["all"].src = fs0["all"].src
         /\ "all" \in Names(started) => Qualifies(fs0, "all")
         /\ (InCall /\ cur.testName = "all") => cur.sourceURL = <<>>
    /\ (runs > 0 /\ "all" \in Names(started)) => batch

\* a run named all, given a valid URL, has regenerated the entry all in its
\* batch loop
C20_Witness ==
    /\ NamedAll
    /\ Len(argv) = 3
    /\ argv[3] = URL_http
    /\ batch
    /\ pc = "return"
    /\ cur.testName = "all"
    /\ err = ""
    /\ fs["all"].html.type = "file"

====
